---- MODULE Spec2Model ----
(***************************************************************************)
(* Model of the splicer of slicing_perf (src/src/lib.rs): splice,          *)
(* splice_stepped and splice_parallel, driven by the three unit tests,     *)
(* which call the three functions on the same (channels, data) input.      *)
(* Positions and channel indices are 0-based as in the source; TLA+        *)
(* sequences are 1-based, so position p of data is data[p + 1] and channel *)
(* c of a result is result[c + 1].                                         *)
(***************************************************************************)
EXTENDS Integers, Sequences, FiniteSets, TLC

VARIABLES channels, data, variant, pc, ret, returned,
          out, cap, reallocs, i, offset, buf, tasks, worker

vars == <<channels, data, variant, pc, ret, returned,
          out, cap, reallocs, i, offset, buf, tasks, worker>>

(* ------------------------------ bounds --------------------------------- *)
MaxChannels == 3
MaxLen == 3
MaxByte == 1
NumWorkers == 2

Bytes == 0..MaxByte
Workers == 1..NumWorkers
Variants == {"splice", "stepped", "parallel"}

RECURSIVE SeqsUpTo(_)
SeqsUpTo(n) ==
    IF n = 0 THEN {<<>>}
    ELSE SeqsUpTo(n - 1) \cup [1..n -> Bytes]

Inputs == SeqsUpTo(MaxLen)

Max(a, b) == IF a >= b THEN a ELSE b
Min(a, b) == IF a <= b THEN a ELSE b

(* ------------------------- pure parts of the code ---------------------- *)

\* assert!(channels > 0); the _NoCheck form accepts 0
AssertOk_NoCheck(n) == n >= 0
AssertOk(n) == n > 0

\* data.len() / channels + if data.len() % channels == 0 { 0 } else { 1 }
EachLen(len, n) == len \div n + (IF len % n = 0 THEN 0 ELSE 1)

\* vec![Vec::with_capacity(each_len); channels]: the macro clones the
\* element for all but the last slot and moves the original into the last
\* one; the clone of an empty Vec<u8> has capacity 0.
VecFromElemCap(eachLen, n) == [c \in 1..n |-> IF c = n THEN eachLen ELSE 0]

\* i % channels, the channel an element at position i goes to
ChannelOf_Shifted(pos, n) == (pos + 1) % n
ChannelOf(pos, n) == pos % n

\* Vec::push grows a full buffer: amortised doubling, at least 8 bytes
GrowAmortized(cp, len) == Max(Max(cp * 2, len + 1), 8)

\* Iterator::skip(n)
Skip_OneMore(s, n) == SubSeq(s, Min(n + 1, Len(s)) + 1, Len(s))
Skip(s, n) == SubSeq(s, Min(n, Len(s)) + 1, Len(s))

\* length of step_by(step) over len elements: the first, then every step-th
StepByLen_Floor(len, step) == len \div step
StepByLen(len, step) == IF len = 0 THEN 0 ELSE 1 + (len - 1) \div step

\* Iterator::step_by(step)
StepBy(s, step) == [k \in 1..StepByLen(Len(s), step) |-> s[(k - 1) * step + 1]]

\* one channel of splice_stepped: skip(offset).step_by(channels).collect()
SteppedChannel(d, off, n) == StepBy(Skip(d, off), n)

ParElem_NoSkip(d, off, n, j) == d[j * n + 1]
\* the element the indexed parallel iterator yields at index j (0-based):
\* par_iter().copied().skip(offset).step_by(channels)
ParElem(d, off, n, j) == Skip(d, off)[j * n + 1]

\* its length, the size of the collect target
ParLen(d, off, n) == StepByLen(Len(Skip(d, off)), n)

\* a slot of the collect target that no worker has written yet
Uninit == -1

\* the collect consumer writes item j of the iterator into slot j
WriteSlot_Arrival(b, j, v) ==
    LET free == {k \in 1..Len(b) : b[k] = Uninit}
    IN  IF free = {} THEN b
        ELSE [b EXCEPT ![CHOOSE k \in free : \A m \in free : k <= m] = v]
WriteSlot(b, j, v) == [b EXCEPT ![j + 1] = v]

\* the outer (0..channels) range is exhausted
MapDone_OneShort(off, n) == off + 1 >= n
MapDone(off, n) == off = n

Idle == [busy |-> FALSE, ch |-> 0, lo |-> 0, hi |-> 0, pos |-> 0]

\* the inner collect() returns once no job is queued or running
AllJobsDone_QueueOnly == tasks = {}
AllJobsDone == tasks = {} /\ \A w \in Workers : ~worker[w].busy

(* ------------------------------ state ---------------------------------- *)

\* check_splicer: the input and the channel counts of the unit tests
TestInput == <<0, 1, 2, 3, 4, 5, 6, 7>>
TestChannels == 1..6

Init ==
    /\ \/ channels \in 0..MaxChannels /\ data \in Inputs
       \/ channels \in TestChannels /\ data = TestInput
    /\ variant \in Variants
    /\ pc = "start"
    /\ ret = [v \in Variants |-> <<>>]
    /\ returned = {}
    /\ out = <<>>
    /\ cap = <<>>
    /\ reallocs = 0
    /\ i = 0
    /\ offset = 0
    /\ buf = <<>>
    /\ tasks = {}
    /\ worker = [w \in Workers |-> Idle]

\* assert!(channels > 0) fails; in splice a zero divisor panics on the
\* next line as well
Panic ==
    /\ pc = "start"
    /\ \/ ~AssertOk(channels)
       \/ variant = "splice" /\ channels = 0
    /\ pc' = "panic"
    /\ UNCHANGED <<channels, data, variant, ret, returned, out, cap,
                   reallocs, i, offset, buf, tasks, worker>>

(* ------------------------------ splice --------------------------------- *)

SpliceBegin ==
    /\ variant = "splice" /\ pc = "start"
    /\ AssertOk(channels) /\ channels # 0
    /\ out' = [c \in 1..channels |-> <<>>]
    /\ cap' = VecFromElemCap(EachLen(Len(data), channels), channels)
    /\ reallocs' = 0
    /\ i' = 0
    /\ pc' = "loop"
    /\ UNCHANGED <<channels, data, variant, ret, returned, offset, buf,
                   tasks, worker>>

\* out[i % channels].push(d)
SpliceStep ==
    /\ variant = "splice" /\ pc = "loop"
    /\ i < Len(data)
    /\ LET c == ChannelOf(i, channels) + 1
           full == Len(out[c]) = cap[c]
       IN  /\ out' = [out EXCEPT ![c] = Append(@, data[i + 1])]
           /\ cap' = IF full
                     THEN [cap EXCEPT ![c] = GrowAmortized(@, Len(out[c]))]
                     ELSE cap
           /\ reallocs' = IF full THEN reallocs + 1 ELSE reallocs
    /\ i' = i + 1
    /\ UNCHANGED <<channels, data, variant, pc, ret, returned, offset, buf,
                   tasks, worker>>

SpliceReturn ==
    /\ variant = "splice" /\ pc = "loop"
    /\ i = Len(data)
    /\ ret' = [ret EXCEPT !["splice"] = out]
    /\ returned' = returned \cup {"splice"}
    /\ pc' = "done"
    /\ UNCHANGED <<channels, data, variant, out, cap, reallocs, i, offset,
                   buf, tasks, worker>>

(* --------------------------- splice_stepped ---------------------------- *)

SteppedBegin ==
    /\ variant = "stepped" /\ pc = "start"
    /\ AssertOk(channels)
    /\ out' = <<>>
    /\ offset' = 0
    /\ pc' = "map"
    /\ UNCHANGED <<channels, data, variant, ret, returned, cap, reallocs, i,
                   buf, tasks, worker>>

\* one item of the outer map: the whole inner pass of channel `offset`
SteppedChannelStep ==
    /\ variant = "stepped" /\ pc = "map"
    /\ offset < channels
    /\ out' = Append(out, SteppedChannel(data, offset, channels))
    /\ offset' = offset + 1
    /\ UNCHANGED <<channels, data, variant, pc, ret, returned, cap, reallocs,
                   i, buf, tasks, worker>>

SteppedReturn ==
    /\ variant = "stepped" /\ pc = "map"
    /\ MapDone(offset, channels)
    /\ ret' = [ret EXCEPT !["stepped"] = out]
    /\ returned' = returned \cup {"stepped"}
    /\ pc' = "done"
    /\ UNCHANGED <<channels, data, variant, out, cap, reallocs, i, offset,
                   buf, tasks, worker>>

(* --------------------------- splice_parallel --------------------------- *)

ParBegin ==
    /\ variant = "parallel" /\ pc = "start"
    /\ AssertOk(channels)
    /\ out' = <<>>
    /\ offset' = 0
    /\ pc' = "map"
    /\ UNCHANGED <<channels, data, variant, ret, returned, cap, reallocs, i,
                   buf, tasks, worker>>

\* the closure of the outer map starts the inner parallel collect of
\* channel `offset`: the target is allocated and one job covering the whole
\* index range is injected into the pool
ParChannelBegin ==
    /\ variant = "parallel" /\ pc = "map"
    /\ offset < channels
    /\ buf' = [j \in 1..ParLen(data, offset, channels) |-> Uninit]
    /\ tasks' = {<<offset, 0, ParLen(data, offset, channels)>>}
    /\ pc' = "scan"
    /\ UNCHANGED <<channels, data, variant, ret, returned, out, cap,
                   reallocs, i, offset, worker>>

\* an idle worker takes (or steals) a queued job
WorkerTake(w) ==
    /\ variant = "parallel"
    /\ ~worker[w].busy
    /\ \E t \in tasks :
         /\ worker' = [worker EXCEPT ![w] =
                [busy |-> TRUE, ch |-> t[1], lo |-> t[2], hi |-> t[3],
                 pos |-> t[2]]]
         /\ tasks' = tasks \ {t}
    /\ UNCHANGED <<channels, data, variant, pc, ret, returned, out, cap,
                   reallocs, i, offset, buf>>

\* the job splits its index range in the middle: the worker keeps the left
\* half and queues the right half
WorkerSplit(w) ==
    /\ variant = "parallel"
    /\ worker[w].busy
    /\ worker[w].pos = worker[w].lo
    /\ worker[w].hi - worker[w].lo >= 2
    /\ LET mid == worker[w].lo + (worker[w].hi - worker[w].lo) \div 2
       IN  /\ tasks' = tasks \cup {<<worker[w].ch, mid, worker[w].hi>>}
           /\ worker' = [worker EXCEPT ![w].hi = mid]
    /\ UNCHANGED <<channels, data, variant, pc, ret, returned, out, cap,
                   reallocs, i, offset, buf>>

\* the job folds its range sequentially: one item into its slot
WorkerStep(w) ==
    /\ variant = "parallel"
    /\ worker[w].busy
    /\ worker[w].pos < worker[w].hi
    /\ buf' = WriteSlot(buf, worker[w].pos,
                        ParElem(data, worker[w].ch, channels, worker[w].pos))
    /\ worker' = [worker EXCEPT ![w].pos = @ + 1]
    /\ UNCHANGED <<channels, data, variant, pc, ret, returned, out, cap,
                   reallocs, i, offset, tasks>>

WorkerFinish(w) ==
    /\ variant = "parallel"
    /\ worker[w].busy
    /\ worker[w].pos = worker[w].hi
    /\ worker' = [worker EXCEPT ![w] = Idle]
    /\ UNCHANGED <<channels, data, variant, pc, ret, returned, out, cap,
                   reallocs, i, offset, buf, tasks>>

\* the inner collect() returns the channel; the outer collect appends it
ParChannelEnd ==
    /\ variant = "parallel" /\ pc = "scan"
    /\ AllJobsDone
    /\ out' = Append(out, buf)
    /\ buf' = <<>>
    /\ offset' = offset + 1
    /\ pc' = "map"
    /\ UNCHANGED <<channels, data, variant, ret, returned, cap, reallocs, i,
                   tasks, worker>>

ParReturn ==
    /\ variant = "parallel" /\ pc = "map"
    /\ MapDone(offset, channels)
    /\ ret' = [ret EXCEPT !["parallel"] = out]
    /\ returned' = returned \cup {"parallel"}
    /\ pc' = "done"
    /\ UNCHANGED <<channels, data, variant, out, cap, reallocs, i, offset,
                   buf, tasks, worker>>

(* ------------------------------- tests --------------------------------- *)

\* the next test calls another of the three functions on the same input
NextCall ==
    /\ pc = "done"
    /\ \E v \in Variants \ returned :
         variant' = v
    /\ pc' = "start"
    /\ out' = <<>>
    /\ cap' = <<>>
    /\ reallocs' = 0
    /\ i' = 0
    /\ offset' = 0
    /\ UNCHANGED <<channels, data, ret, returned, buf, tasks, worker>>

Next ==
    \/ Panic
    \/ SpliceBegin
    \/ SpliceStep
    \/ SpliceReturn
    \/ SteppedBegin
    \/ SteppedChannelStep
    \/ SteppedReturn
    \/ ParBegin
    \/ ParChannelBegin
    \/ \E w \in Workers : WorkerTake(w)
    \/ \E w \in Workers : WorkerSplit(w)
    \/ \E w \in Workers : WorkerStep(w)
    \/ \E w \in Workers : WorkerFinish(w)
    \/ ParChannelEnd
    \/ ParReturn
    \/ NextCall

Spec == Init /\ [][Next]_vars

\* the pool's workers keep running and the calling thread is scheduled
FairSpec == Spec /\ WF_vars(Next)

(* --------------------- reference definitions --------------------------- *)

\* the positions of an input of length len that belong to channel c
PositionsOf(c, n, len) == {p \in 0..(len - 1) : p % n = c}

\* the elements of d at the positions of set P, in increasing position order
RECURSIVE Ascending(_, _)
Ascending(d, P) ==
    IF P = {} THEN <<>>
    ELSE LET m == CHOOSE p \in P : \A q \in P : q <= p
         IN  Append(Ascending(d, P \ {m}), d[m + 1])

StrideOf(d, c, n) == Ascending(d, PositionsOf(c, n, Len(d)))

Demux(d, n) == [c \in 1..n |-> StrideOf(d, c - 1, n)]

RECURSIVE SumLen(_)
SumLen(chs) ==
    IF chs = <<>> THEN 0 ELSE Len(Head(chs)) + SumLen(Tail(chs))

RECURSIVE LongestLen(_)
LongestLen(chs) ==
    IF chs = <<>> THEN 0 ELSE Max(Len(Head(chs)), LongestLen(Tail(chs)))

\* element k of channels c, c+1, ..., skipping exhausted channels
RECURSIVE Round(_, _, _)
Round(chs, k, c) ==
    IF c > Len(chs) THEN <<>>
    ELSE (IF k <= Len(chs[c]) THEN <<chs[c][k]>> ELSE <<>>)
         \o Round(chs, k, c + 1)

\* rounds k, k+1, ... of the round-robin re-interleaving
RECURSIVE RoundsFrom(_, _)
RoundsFrom(chs, k) ==
    IF k > LongestLen(chs) THEN <<>>
    ELSE Round(chs, k, 1) \o RoundsFrom(chs, k + 1)

Interleave(chs) == RoundsFrom(chs, 1)

CeilDiv(a, b) == (a + b - 1) \div b

BusyOn(w) == worker[w].busy /\ worker[w].pos < worker[w].hi

(* ------------------------------ claims --------------------------------- *)

\* C1: every variant that has returned gave, for each channel c < N, exactly
\* the input elements at the positions p with p mod N = c, in increasing
\* order of p; on the unit-test input with N = 3 that is
\* [[0,3,6],[1,4,7],[2,5]].
C1_ChannelContents ==
    \A v \in returned :
        /\ \A c \in 0..(channels - 1) :
              /\ c + 1 \in DOMAIN ret[v]
              /\ ret[v][c + 1] = StrideOf(data, c, channels)
        /\ (data = TestInput /\ channels = 3)
              => ret[v] = << <<0, 3, 6>>, <<1, 4, 7>>, <<2, 5>> >>

C1_Witness ==
    /\ returned = Variants
    /\ data = TestInput /\ channels = 3

\* C2: once the three variants have returned on the same input, their
\* results are equal, channel order and channel contents included.
C2_Equivalence ==
    returned = Variants =>
        /\ ret["splice"] = ret["stepped"]
        /\ ret["stepped"] = ret["parallel"]

C2_Witness ==
    /\ returned = Variants
    /\ channels = 2 /\ Len(data) = 3 /\ data[1] # data[2]

\* C3: re-interleaving the returned channels round-robin, skipping the
\* exhausted ones, gives back the input.
C3_RoundTrip ==
    \A v \in returned : Interleave(ret[v]) = data

C3_Witness ==
    /\ returned = Variants
    /\ channels = 2 /\ Len(data) = 3 /\ data[1] # data[3]

\* C4: a returned result has exactly N channels and channel c has length
\* ceil((len - c) / N) if c < len and 0 otherwise.
C4_SizeLaw ==
    \A v \in returned :
        /\ Len(ret[v]) = channels
        /\ \A c \in 0..(channels - 1) :
              Len(ret[v][c + 1]) =
                 IF c < Len(data) THEN CeilDiv(Len(data) - c, channels) ELSE 0

C4_Witness ==
    /\ returned = Variants
    /\ channels = 3 /\ Len(data) = 2
    /\ ret["parallel"][3] = <<>>

\* C5: with N = 0 a call never gets past its entry: it panics, nothing is
\* returned, no buffer is allocated, no element is read and no job is
\* queued or run.
C5_ZeroChannelsFails ==
    channels = 0 =>
        /\ pc \in {"start", "panic"}
        /\ returned = {}
        /\ \A v \in Variants : ret[v] = <<>>
        /\ out = <<>> /\ cap = <<>> /\ buf = <<>>
        /\ i = 0 /\ offset = 0
        /\ tasks = {}
        /\ \A w \in Workers : ~worker[w].busy

C5_Witness ==
    /\ channels = 0 /\ pc = "panic"
    /\ variant = "parallel" /\ Len(data) > 0

\* C6: whatever the order in which the workers run, every slot a worker has
\* written holds the element of its own stride position, every collected
\* channel c is the stride of offset c, and the returned result is the
\* demultiplexed input.
C6_ParallelDeterministic ==
    variant = "parallel" =>
        /\ \A c \in 1..Len(out) : out[c] = StrideOf(data, c - 1, channels)
        /\ pc = "scan" =>
              \A j \in 1..Len(buf) :
                  \/ buf[j] = Uninit
                  \/ buf[j] = data[offset + (j - 1) * channels + 1]
        /\ "parallel" \in returned => ret["parallel"] = Demux(data, channels)

\* a later slot is written while the slot before it is still unwritten
C6_Witness ==
    /\ variant = "parallel" /\ pc = "scan"
    /\ Len(buf) >= 2
    /\ buf[1] = Uninit /\ buf[2] # Uninit
    /\ data[offset + 1] # data[offset + channels + 1]

\* C7: the work of splice_parallel on N >= 2 channels is N independent tasks, one per channel:
\* every job, queued or running, is the whole pass of one channel (slots
\* 0 .. its length), so the pass of a channel runs on one worker, and the
\* only concurrency is between the passes of different channels.
C7_OneTaskPerChannel ==
    (variant = "parallel" /\ channels >= 2) =>
        /\ \A t \in tasks :
              t[2] = 0 /\ t[3] = ParLen(data, t[1], channels)
        /\ \A w \in Workers :
              worker[w].busy =>
                  /\ worker[w].lo = 0
                  /\ worker[w].hi = ParLen(data, worker[w].ch, channels)
        /\ \A w1, w2 \in Workers :
              (w1 # w2 /\ BusyOn(w1) /\ BusyOn(w2)) =>
                  worker[w1].ch # worker[w2].ch

\* What the code does instead of C7: the channel passes run one after
\* another; every queued or running job belongs to the one channel whose
\* collect is in progress, so jobs of two different channels never coexist,
\* and the jobs of that channel cover disjoint index ranges.
OneChannelAtATime ==
    /\ \A w \in Workers :
          worker[w].busy =>
              /\ variant = "parallel" /\ pc = "scan"
              /\ worker[w].ch = offset
    /\ \A t \in tasks :
          /\ variant = "parallel" /\ pc = "scan"
          /\ t[1] = offset
    /\ \A w1, w2 \in Workers :
          (w1 # w2 /\ worker[w1].busy /\ worker[w2].busy) =>
              \/ worker[w1].hi <= worker[w2].lo
              \/ worker[w2].hi <= worker[w1].lo

\* C8: splice_parallel returns only when no job is queued or running; the
\* returned result has all N channels, each fully written and at its own
\* index; nothing is visible to the caller before that; and every call
\* with N >= 1 returns.
C8_ReturnsComplete ==
    \/ "parallel" \notin returned /\ ret["parallel"] = <<>>
    \/ /\ "parallel" \in returned
       /\ Len(ret["parallel"]) = channels
       /\ \A c \in 1..Len(ret["parallel"]) :
             /\ Len(ret["parallel"][c]) =
                   Cardinality(PositionsOf(c - 1, channels, Len(data)))
             /\ \A j \in 1..Len(ret["parallel"][c]) :
                   ret["parallel"][c][j] # Uninit
       /\ (variant = "parallel" /\ pc = "done") =>
             /\ tasks = {}
             /\ \A w \in Workers : ~worker[w].busy

\* C8: the completeness of the returned result holds in every state, and
\* every call of splice_parallel with N >= 1 eventually returns.
C8_JoinThenReturn ==
    /\ []C8_ReturnsComplete
    /\ (variant = "parallel" /\ pc = "start" /\ channels >= 1)
          ~> ("parallel" \in returned)

C8_Witness ==
    /\ variant = "parallel" /\ pc = "done"
    /\ channels = 2 /\ Len(data) = 3 /\ data[1] # data[3]

\* C9: in splice every buffer starts with capacity ceil(len / N), no
\* channel outgrows that capacity and no push reallocates.
C9_Presized ==
    (variant = "splice" /\ pc \in {"loop", "done"}) =>
        /\ \A c \in 1..channels :
              /\ cap[c] = CeilDiv(Len(data), channels)
              /\ Len(out[c]) <= CeilDiv(Len(data), channels)
        /\ reallocs = 0

\* C10: after k elements each channel of splice holds the positions p < k
\* with p mod N = c in increasing order and the lengths sum to k; a step
\* appends element k to channel k mod N and changes nothing else; the pass
\* ends after exactly len steps.
C10_Inv ==
    (variant = "splice" /\ pc \in {"loop", "done"}) =>
        /\ i \in 0..Len(data)
        /\ Len(out) = channels
        /\ \A c \in 0..(channels - 1) :
              out[c + 1] = StrideOf(SubSeq(data, 1, i), c, channels)
        /\ SumLen(out) = i
        /\ pc = "done" => (i = Len(data) /\ ret["splice"] = out)

C10_Step ==
    /\ (variant = "splice" /\ pc = "loop" /\ pc' = "loop") =>
          /\ i < Len(data)
          /\ i' = i + 1
          /\ out' = [out EXCEPT ![(i % channels) + 1] = Append(@, data[i + 1])]
    /\ (variant = "splice" /\ pc = "loop" /\ pc' = "done") =>
          /\ i = Len(data)
          /\ out' = out

\* C10: the loop invariant holds in every state of the pass and every step
\* of the pass is one append to channel k mod N.
C10_LoopInvariant == []C10_Inv /\ [][C10_Step]_vars

C10_Witness ==
    /\ variant = "splice" /\ pc = "loop"
    /\ channels = 3 /\ i = 4 /\ i < Len(data)
    /\ Len(out[1]) = 2

====
